---- MODULE Spec2Model ----
(***************************************************************************)
(* Model of the end-to-end encryption core of Buddy Hunt: CryptoPrimitives, *)
(* X3DHKeyAgreement, DoubleRatchet and KeyManagementService, as given in   *)
(* src/scripts/windows-setup.bat lines 43-900.                             *)
(*                                                                         *)
(* Cryptography is modelled symbolically (perfect cryptography): a byte    *)
(* string is a tagged record that records how it was computed, so two byte *)
(* strings are equal exactly when they were computed the same way.  The    *)
(* only algebraic law is that of X25519: DH(a, pub(b)) = DH(b, pub(a)).    *)
(* Plaintexts are well-formed strings.                                     *)
(***************************************************************************)
EXTENDS Naturals, Sequences, FiniteSets

VARIABLES
    ratchet,    \* party -> RatchetState of that party's DoubleRatchet
    keyGen,     \* number of key pairs generateKeyPair has produced so far
    sent,       \* party -> the EncryptedMessages its encrypt calls returned
    presented,  \* party -> indexes of the peer's messages handed to its decrypt
    accepted,   \* party -> indexes of the peer's messages its decrypt returned
    rejected,   \* party -> indexes whose altered copy its decrypt rejected
    ordered,    \* every genuine message so far was delivered once and in order
    injected,   \* number of altered or replayed messages presented so far
    last,       \* the last DoubleRatchet call: its input, outcome and pre-state
    chainUses,  \* party -> the chain keys it has derived a message key from
    chainReused,\* party -> whether it derived from one chain key value twice
    identityKeyPair,  \* KeyManagementService.identityKeyPair
    preKeys,          \* KeyManagementService.preKeys: id -> key pair
    oneTimePreKeys,   \* KeyManagementService.oneTimePreKeys: id -> key pair
    sessions,         \* KeyManagementService.sessions: handle -> session
    now,              \* the clock read by Date.now()
    published,        \* the body of the last upload to /api/keys/upload
    initializing,     \* the initialize() call in flight: where it is suspended
    initialized,      \* whether initialize() has been called
    handshakes,       \* what remote initiators computed and sent to this user
    calls,            \* the acceptConversation calls: position and locals
    dh4Uses,          \* one-time prekey pairs used as DH4 operand, in order
    identityHistory,  \* the identity key pairs initialize() has stored, in order
    starts,           \* the startConversation calls: position and locals
    lastCall,         \* the last call on the session registry and its outcome
    encrypting,       \* the encrypt calls in flight on Alice's session
    overlapped        \* an encrypt call started while another was in flight

\* the two ratchets and the network between them
nvars == <<ratchet, sent, presented, accepted, rejected, ordered, injected, last,
           chainUses, chainReused>>
\* the key management service of one user
kvars == <<identityKeyPair, preKeys, oneTimePreKeys, sessions, now, published,
           initializing, initialized, handshakes, calls, dh4Uses,
           identityHistory, starts, lastCall>>
\* the part of it that the handshake steps of acceptConversation leave alone
rvars == <<identityHistory, starts, lastCall>>

\* encrypt calls taken one await at a time
cvars == <<encrypting, overlapped>>

vars == <<nvars, keyGen, kvars, cvars>>

----------------------------------------------------------------------------
(* Bounds of the model *)

\* MAX_SKIP is 1000 in the source (line 363); the model scales it down so
\* that the skip boundary is within reach of the message bound.
MAX_SKIP == 2
\* messages a party may encrypt when the network reorders, replays and alters
MaxSend == 3
\* messages a party may encrypt when the network delivers in order
MaxSendInOrder == 4
\* messages Alice may encrypt when only she sends more than one
MaxSendLong == 6
\* messages a party may encrypt, and forged headers, when the network forges
MaxSendForge == 2
MaxForge == 1
\* messages a party may encrypt, and replays, when the network only replays
MaxSendReplay == 2
MaxReplay == 1
\* altered or replayed messages the network may present
MaxInject == 1

\* generateOneTimePreKeys(100) at line 668; the model scales the pool down
OneTimePreKeyCount == 2
\* handshakes remote initiators may start
MaxHandshakes == 2
\* acceptConversation calls
MaxAccept == 2

\* startConversation calls
MaxStart == 1
\* initialize() calls when the user initializes again
MaxInitialize == 2
\* the eviction age is 7 * 24 * 60 * 60 * 1000 ms in the source (line 891);
\* the model scales it down to clock ticks
SevenDays == 2
\* the last instant of the clock
MaxClock == 3
\* encryptMessage and decryptMessage calls a session may serve
MaxSessionSend == 1
MaxSessionReceive == 1
\* encrypt calls that may be in flight on one session
MaxConcurrent == 3

Party == {"alice", "bob"}
peer(p) == IF p = "alice" THEN "bob" ELSE "alice"
\* the plaintext of the k-th message a party encrypts: every message has its own
Plaintext(p, k) == <<p, k>>

----------------------------------------------------------------------------
(* CryptoPrimitives *)

\* new ArrayBuffer(n)
zeros(n) == [zeros |-> n]
\* TextEncoder.encode / TextDecoder.decode
encode(s) == [utf8 |-> s]
decode(b) == b.utf8

\* the k-th key pair produced by generateKeyPair
KeyPair(k) == [privateKey |-> [priv |-> k], publicKey |-> [raw |-> [pub |-> k]]]
\* crypto.subtle.importKey('raw', bytes, 'X25519') / exportKey('raw', key)
importKey(raw) == [raw |-> raw]
exportKey(key) == key.raw

deriveSharedSecret(privateKey, publicKey) ==
    [dh |-> {privateKey.priv, publicKey.raw.pub}]

hkdf(inputKeyMaterial, salt, info, length) ==
    [ikm |-> inputKeyMaterial, salt |-> salt, info |-> info, length |-> length]
slice(buf, from, to) == [of |-> buf, from |-> from, to |-> to]
concat(parts) == [concat |-> parts]

hmac(key, data) == [key |-> key, data |-> data]

\* the nonce is drawn at random; no outcome modelled here depends on its value
encryptAESGCM(key, plaintext) ==
    [ciphertext |-> [gcmKey |-> key, plaintext |-> plaintext, intact |-> TRUE],
     iv |-> [random |-> 12]]

\* the tag verifies only under the encrypting key and nonce of an intact text
AuthenticationOk(key, ciphertext, iv) ==
    /\ ciphertext.intact
    /\ ciphertext.gcmKey = key
    /\ iv = [random |-> 12]
decryptAESGCM(key, ciphertext, iv) == ciphertext.plaintext

----------------------------------------------------------------------------
(* X3DHKeyAgreement.performX3DH (initiator) *)

NoKey == [none |-> TRUE]

performX3DH(ownIdentityKeyPair, ephemeralKeyPair, remotePreKeyBundle) ==
    LET remoteIdentityKey == importKey(remotePreKeyBundle.identityKey)
        remoteSignedPreKey == importKey(remotePreKeyBundle.signedPreKey)
        dh1 == deriveSharedSecret(ownIdentityKeyPair.privateKey, remoteSignedPreKey)
        dh2 == deriveSharedSecret(ephemeralKeyPair.privateKey, remoteIdentityKey)
        dh3 == deriveSharedSecret(ephemeralKeyPair.privateKey, remoteSignedPreKey)
        sharedSecrets ==
            IF remotePreKeyBundle.oneTimePreKey # NoKey
            THEN <<dh1, dh2, dh3,
                   deriveSharedSecret(ephemeralKeyPair.privateKey,
                                      importKey(remotePreKeyBundle.oneTimePreKey))>>
            ELSE <<dh1, dh2, dh3>>
    IN hkdf(concat(sharedSecrets), zeros(32), encode("BuddyHunt X3DH"), 32)

\* a responder that concatenates DH1 and DH2 in the other order
responderX3DHSwapped(ownIdentityKeyPair, signedPreKeyPair, oneTimePreKeyPair, senderIdentityKey, ephemeralPublicKey) ==
    LET ephemeralKey == importKey(ephemeralPublicKey)
        dh1 == deriveSharedSecret(signedPreKeyPair.privateKey,
                                  importKey(senderIdentityKey))
        dh2 == deriveSharedSecret(ownIdentityKeyPair.privateKey, ephemeralKey)
        dh3 == deriveSharedSecret(signedPreKeyPair.privateKey, ephemeralKey)
        sharedSecrets ==
            IF oneTimePreKeyPair # NoKey
            THEN <<dh2, dh1, dh3,
                   deriveSharedSecret(oneTimePreKeyPair.privateKey, ephemeralKey)>>
            ELSE <<dh2, dh1, dh3>>
    IN hkdf(concat(sharedSecrets), zeros(32), encode("BuddyHunt X3DH"), 32)

\* KeyManagementService.acceptConversation, lines 749-786 (responder)
responderX3DH(ownIdentityKeyPair, signedPreKeyPair, oneTimePreKeyPair, senderIdentityKey, ephemeralPublicKey) ==
    LET ephemeralKey == importKey(ephemeralPublicKey)
        dh1 == deriveSharedSecret(signedPreKeyPair.privateKey,
                                  importKey(senderIdentityKey))
        dh2 == deriveSharedSecret(ownIdentityKeyPair.privateKey, ephemeralKey)
        dh3 == deriveSharedSecret(signedPreKeyPair.privateKey, ephemeralKey)
        sharedSecrets ==
            IF oneTimePreKeyPair # NoKey
            THEN <<dh1, dh2, dh3,
                   deriveSharedSecret(oneTimePreKeyPair.privateKey, ephemeralKey)>>
            ELSE <<dh1, dh2, dh3>>
    IN hkdf(concat(sharedSecrets), zeros(32), encode("BuddyHunt X3DH"), 32)

----------------------------------------------------------------------------
(* DoubleRatchet *)

deriveRootChainKeys(rootKey, dhOutput) ==
    LET derived == hkdf(dhOutput, rootKey, encode("BuddyHunt Root Chain"), 64)
    IN [newRootKey |-> slice(derived, 0, 32), chainKey |-> slice(derived, 32, 64)]

\* a symmetric ratchet that does not advance the chain
deriveMessageKeyStuck(chainKey) ==
    [messageKey |-> hmac(chainKey, encode("MESSAGE_KEY_SEED")),
     nextChainKey |-> chainKey]

deriveMessageKey(chainKey) ==
    [messageKey |-> hmac(chainKey, encode("MESSAGE_KEY_SEED")),
     nextChainKey |-> hmac(chainKey, encode("CHAIN_KEY_SEED"))]

areKeysEqual(key1, key2) == exportKey(key1) = exportKey(key2)

initializeAlice(sharedKey, remotePublicKey, dhSend) ==
    LET dhRecv == importKey(remotePublicKey)
        k == deriveRootChainKeys(sharedKey,
                                 deriveSharedSecret(dhSend.privateKey, dhRecv))
    IN [rootKey |-> k.newRootKey,
        chainKeySend |-> k.chainKey,
        chainKeyRecv |-> zeros(32),
        dhSend |-> dhSend,
        dhRecv |-> dhRecv,
        pn |-> 0, ns |-> 0, nr |-> 0,
        skippedKeys |-> <<>>]

initializeBob(sharedKey, keyPair) ==
    [rootKey |-> sharedKey,
     chainKeySend |-> zeros(32),
     chainKeyRecv |-> zeros(32),
     dhSend |-> keyPair,
     dhRecv |-> NoKey,
     pn |-> 0, ns |-> 0, nr |-> 0,
     skippedKeys |-> <<>>]

\* Map.set on the skipped-key cache; the cache is a function from `${nr}`
MapSet(map, key, value) ==
    [k \in DOMAIN map \cup {key} |-> IF k = key THEN value ELSE map[k]]

\* the while loop of skipMessageKeys
RECURSIVE skipLoop(_, _)
skipLoop(s, until) ==
    IF s.nr < until
    THEN LET d == deriveMessageKey(s.chainKeyRecv)
         IN skipLoop([s EXCEPT !.skippedKeys = MapSet(@, s.nr, d.messageKey),
                               !.chainKeyRecv = d.nextChainKey,
                               !.nr = @ + 1],
                     until)
    ELSE s

\* a call returns the state it leaves behind and the error it threw, if any
NoError == "none"

\* a skipMessageKeys without the check of the gap against MAX_SKIP
skipMessageKeysUnbounded(s, until) ==
    [state |-> skipLoop(s, until), error |-> NoError]

skipMessageKeys(s, until) ==
    IF s.nr + MAX_SKIP < until
    THEN [state |-> s, error |-> "SkippedTooMany"]
    ELSE [state |-> skipLoop(s, until), error |-> NoError]

\* a DH ratchet step that keeps the root key of its first KDF step
performDHRatchetKeepsFirstRoot(s, remotePublicKey, header, newKeyPair) ==
    LET s1 == [s EXCEPT !.pn = s.ns, !.ns = 0, !.nr = 0,
                        !.dhRecv = remotePublicKey]
        skipped == skipMessageKeys(s1, header.pn)
        s2 == skipped.state
        k1 == deriveRootChainKeys(
                  s2.rootKey,
                  deriveSharedSecret(s2.dhSend.privateKey, remotePublicKey))
        k2 == deriveRootChainKeys(
                  k1.newRootKey,
                  deriveSharedSecret(newKeyPair.privateKey, remotePublicKey))
    IN IF skipped.error # NoError
       THEN skipped
       ELSE [state |-> [s2 EXCEPT !.rootKey = k1.newRootKey,
                                  !.chainKeyRecv = k1.chainKey,
                                  !.dhSend = newKeyPair,
                                  !.chainKeySend = k2.chainKey],
             error |-> NoError]

\* a DH ratchet step that leaves Pn as it was
performDHRatchetKeepsPn(s, remotePublicKey, header, newKeyPair) ==
    LET s1 == [s EXCEPT !.ns = 0, !.nr = 0, !.dhRecv = remotePublicKey]
        skipped == skipMessageKeys(s1, header.pn)
        s2 == skipped.state
        k1 == deriveRootChainKeys(
                  s2.rootKey,
                  deriveSharedSecret(s2.dhSend.privateKey, remotePublicKey))
        k2 == deriveRootChainKeys(
                  k1.newRootKey,
                  deriveSharedSecret(newKeyPair.privateKey, remotePublicKey))
    IN IF skipped.error # NoError
       THEN skipped
       ELSE [state |-> [s2 EXCEPT !.rootKey = k2.newRootKey,
                                  !.chainKeyRecv = k1.chainKey,
                                  !.dhSend = newKeyPair,
                                  !.chainKeySend = k2.chainKey],
             error |-> NoError]

\* a DH ratchet step that keeps sending under the own key pair it had
performDHRatchetKeepsKeyPair(s, remotePublicKey, header, newKeyPair) ==
    LET s1 == [s EXCEPT !.pn = s.ns, !.ns = 0, !.nr = 0,
                        !.dhRecv = remotePublicKey]
        skipped == skipMessageKeys(s1, header.pn)
        s2 == skipped.state
        k1 == deriveRootChainKeys(
                  s2.rootKey,
                  deriveSharedSecret(s2.dhSend.privateKey, remotePublicKey))
        k2 == deriveRootChainKeys(
                  k1.newRootKey,
                  deriveSharedSecret(newKeyPair.privateKey, remotePublicKey))
    IN IF skipped.error # NoError
       THEN skipped
       ELSE [state |-> [s2 EXCEPT !.rootKey = k2.newRootKey,
                                  !.chainKeyRecv = k1.chainKey,
                                  !.chainKeySend = k2.chainKey],
             error |-> NoError]

performDHRatchet(s, remotePublicKey, header, newKeyPair) ==
    LET s1 == [s EXCEPT !.pn = s.ns, !.ns = 0, !.nr = 0,
                        !.dhRecv = remotePublicKey]
        skipped == skipMessageKeys(s1, header.pn)
        s2 == skipped.state
        k1 == deriveRootChainKeys(
                  s2.rootKey,
                  deriveSharedSecret(s2.dhSend.privateKey, remotePublicKey))
        k2 == deriveRootChainKeys(
                  k1.newRootKey,
                  deriveSharedSecret(newKeyPair.privateKey, remotePublicKey))
    IN IF skipped.error # NoError
       THEN skipped
       ELSE [state |-> [s2 EXCEPT !.rootKey = k2.newRootKey,
                                  !.chainKeyRecv = k1.chainKey,
                                  !.dhSend = newKeyPair,
                                  !.chainKeySend = k2.chainKey],
             error |-> NoError]

\* an encrypt that counts the message as sent on the previous chain too
encryptCountsPn(s, plaintext) ==
    LET d == deriveMessageKey(s.chainKeySend)
        c == encryptAESGCM(d.messageKey, encode(plaintext))
    IN [state |-> [s EXCEPT !.chainKeySend = d.nextChainKey, !.ns = @ + 1,
                            !.pn = @ + 1],
        message |-> [header |-> [dhPublicKey |-> exportKey(s.dhSend.publicKey),
                                 pn |-> s.pn,
                                 n |-> s.ns],
                     ciphertext |-> c.ciphertext,
                     iv |-> c.iv]]

\* an encrypt that does not count the message it sends
encryptKeepsNs(s, plaintext) ==
    LET d == deriveMessageKey(s.chainKeySend)
        c == encryptAESGCM(d.messageKey, encode(plaintext))
    IN [state |-> [s EXCEPT !.chainKeySend = d.nextChainKey],
        message |-> [header |-> [dhPublicKey |-> exportKey(s.dhSend.publicKey),
                                 pn |-> s.pn,
                                 n |-> s.ns],
                     ciphertext |-> c.ciphertext,
                     iv |-> c.iv]]

\* encrypt returns the message and the state it leaves
encrypt(s, plaintext) ==
    LET d == deriveMessageKey(s.chainKeySend)
        c == encryptAESGCM(d.messageKey, encode(plaintext))
    IN [state |-> [s EXCEPT !.chainKeySend = d.nextChainKey, !.ns = @ + 1],
        message |-> [header |-> [dhPublicKey |-> exportKey(s.dhSend.publicKey),
                                 pn |-> s.pn,
                                 n |-> s.ns],
                     ciphertext |-> c.ciphertext,
                     iv |-> c.iv]]

\* encrypt one await at a time.  Line 427: the chain key is read when
\* deriveMessageKey is called
encryptDerive(s) == deriveMessageKey(s.chainKeySend)

\* line 428, once deriveMessageKey has resolved
encryptStoreChain(s, derived) == [s EXCEPT !.chainKeySend = derived.nextChainKey]

\* lines 439-447, once exportKey has resolved
encryptMessageOf(s, dhPublicKey, sealed) ==
    [header |-> [dhPublicKey |-> dhPublicKey, pn |-> s.pn, n |-> s.ns],
     ciphertext |-> sealed.ciphertext,
     iv |-> sealed.iv]

\* an encrypt that forgets to count the message
encryptCountSkipped(s) == s

\* line 449
encryptCount(s) == [s EXCEPT !.ns = @ + 1]

\* a decrypt that takes the DH ratchet step for every message
needsDHRatchetAlways(s, message) == TRUE

needsDHRatchet(s, message) ==
    \/ s.dhRecv = NoKey
    \/ ~areKeysEqual(importKey(message.header.dhPublicKey), s.dhRecv)

\* decrypt returns the state it leaves, the error it threw and the plaintext
NoPlaintext == <<"none", 0>>

decrypt(s, message, newKeyPair) ==
    LET dhPublicKey == importKey(message.header.dhPublicKey)
        stepped == IF needsDHRatchet(s, message)
                   THEN performDHRatchet(s, dhPublicKey, message.header, newKeyPair)
                   ELSE [state |-> s, error |-> NoError]
        skipped == skipMessageKeys(stepped.state, message.header.n)
        d == deriveMessageKey(skipped.state.chainKeyRecv)
        s3 == [skipped.state EXCEPT !.chainKeyRecv = d.nextChainKey, !.nr = @ + 1]
    IN IF stepped.error # NoError
       THEN [state |-> stepped.state, error |-> stepped.error,
             plaintext |-> NoPlaintext]
       ELSE IF skipped.error # NoError
       THEN [state |-> skipped.state, error |-> skipped.error,
             plaintext |-> NoPlaintext]
       ELSE IF ~AuthenticationOk(d.messageKey, message.ciphertext, message.iv)
       THEN [state |-> s3, error |-> "AuthenticationFailure",
             plaintext |-> NoPlaintext]
       ELSE [state |-> s3, error |-> NoError,
             plaintext |-> decode(decryptAESGCM(d.messageKey, message.ciphertext,
                                                message.iv))]

\* the chain keys the while loop of skipMessageKeys passes to deriveMessageKey
RECURSIVE skipLoopUses(_, _)
skipLoopUses(s, until) ==
    IF s.nr < until
    THEN <<s.chainKeyRecv>>
            \o skipLoopUses([s EXCEPT
                                !.chainKeyRecv = deriveMessageKey(@).nextChainKey,
                                !.nr = @ + 1],
                            until)
    ELSE <<>>

skipMessageKeysUses(s, until) ==
    IF s.nr + MAX_SKIP < until THEN <<>> ELSE skipLoopUses(s, until)

\* the chain keys a decrypt call passes to deriveMessageKey, in order: those of
\* the skip inside performDHRatchet, those of its own skip, and the one of
\* the message
decryptUses(s, message, newKeyPair) ==
    LET ratchets == needsDHRatchet(s, message)
        dhPublicKey == importKey(message.header.dhPublicKey)
        stepped == IF ratchets
                   THEN performDHRatchet(s, dhPublicKey, message.header, newKeyPair)
                   ELSE [state |-> s, error |-> NoError]
        inStep == IF ratchets
                  THEN skipMessageKeysUses([s EXCEPT !.nr = 0], message.header.pn)
                  ELSE <<>>
        skipped == skipMessageKeys(stepped.state, message.header.n)
    IN IF stepped.error # NoError THEN inStep
       ELSE IF skipped.error # NoError THEN inStep
       ELSE inStep \o skipMessageKeysUses(stepped.state, message.header.n)
                   \o <<skipped.state.chainKeyRecv>>

----------------------------------------------------------------------------
(* Two sessions established from one handshake, and the network between them *)

\* key pairs generated before the sessions exist: Alice's identity key, Bob's
\* identity key, signed prekey and one-time prekey, Alice's ephemeral key and
\* the first sending key of Alice's ratchet
AliceIdentity == KeyPair(1)
BobIdentity == KeyPair(2)
BobSignedPreKey == KeyPair(3)
BobOneTimePreKey == KeyPair(4)
AliceEphemeral == KeyPair(5)
AliceFirstRatchetKey == KeyPair(6)

BobBundle == [identityKey |-> exportKey(BobIdentity.publicKey),
              signedPreKey |-> exportKey(BobSignedPreKey.publicKey),
              oneTimePreKey |-> exportKey(BobOneTimePreKey.publicKey)]

\* startConversation lines 686-699 and acceptConversation lines 749-790
AliceSession ==
    initializeAlice(performX3DH(AliceIdentity, AliceEphemeral, BobBundle),
                    BobBundle.signedPreKey, AliceFirstRatchetKey)
BobSession ==
    initializeBob(responderX3DH(BobIdentity, BobSignedPreKey, BobOneTimePreKey,
                                exportKey(AliceIdentity.publicKey),
                                exportKey(AliceEphemeral.publicKey)),
                  BobSignedPreKey)

----------------------------------------------------------------------------
(* KeyManagementService: the service of the user who is called (Bob); the   *)
(* remote initiator is Alice.                                               *)

\* Map.get (undefined when the key is absent) and Map.delete
MapGet(map, key) == IF key \in DOMAIN map THEN map[key] ELSE NoKey
MapDelete(map, key) == [k \in DOMAIN map \ {key} |-> map[k]]

\* an omitted oneTimePreKeyId, and the id `onetime-${index}`
NoId == [undefined |-> TRUE]
OneTimeId(index) == [onetime |-> index]
SignedPreKeyIds == {"signed-1", "signed-2"}
\* Math.random().toString(36)
RandomSuffixes == {"r1", "r2"}

NotPublished == [none |-> TRUE]
NoHandle == [none |-> TRUE]

\* an acceptConversation call that has not started
IdleCall == [pc |-> "idle", handshake |-> 0,
             ephemeralPublicKey |-> NoKey, signedPreKeyId |-> "",
             oneTimePreKeyId |-> NoId,
             signedPreKeyPair |-> NoKey, oneTimePreKeyPair |-> NoKey,
             identityKeyPair |-> NoKey, sharedKey |-> NoKey,
             conversationId |-> NoHandle]

\* exportKey('raw', privateKey) is taken to return the private scalar
generateSignedPreKey(identityPrivateKey, keyPair) ==
    [keyPair |-> keyPair,
     signature |-> hmac(identityPrivateKey, exportKey(keyPair.publicKey))]

\* an acceptConversation that leaves the one-time prekey in the pool
keepUsedOneTimePreKey(pool, oneTimePreKeyId) == pool

\* lines 729-732: remove the used one-time prekey from the pool
removeUsedOneTimePreKey(pool, oneTimePreKeyId) ==
    IF oneTimePreKeyId # NoId THEN MapDelete(pool, oneTimePreKeyId) ELSE pool

\* an acceptConversation that removes the one-time prekey before it tests
\* the signed prekey
poolAfterLookupRemovesFirst(pool, signedPreKeyPair, oneTimePreKeyId) ==
    removeUsedOneTimePreKey(pool, oneTimePreKeyId)

\* the pool after lines 725-732: the throw for an unknown signed prekey
\* comes before the removal of the one-time prekey
poolAfterLookup(pool, signedPreKeyPair, oneTimePreKeyId) ==
    IF signedPreKeyPair = NoKey
    THEN pool
    ELSE removeUsedOneTimePreKey(pool, oneTimePreKeyId)

NoMessage == [header |-> [dhPublicKey |-> NoKey, pn |-> 0, n |-> 0],
              ciphertext |-> [gcmKey |-> NoKey, plaintext |-> encode(NoPlaintext),
                              intact |-> FALSE],
              iv |-> [random |-> 12]]

\* a startConversation call that has not started
IdleStart == [pc |-> "idle", ratchet |-> NoKey, conversationId |-> NoHandle]

\* Map.get on the registry returns undefined for an unknown handle
NoSession == [undefined |-> TRUE]
\* a handle no call has ever returned
UnknownHandle == [time |-> 0, random |-> "never"]

\* no call on the registry yet
NoCall == [op |-> "none", handle |-> NoHandle, error |-> NoError,
           output |-> NoHandle, before |-> <<>>, time |-> 0]

\* a registry lookup that falls back to some registered session
getSessionOrAny(registry, conversationId) ==
    IF conversationId \in DOMAIN registry THEN registry[conversationId]
    ELSE IF DOMAIN registry # {}
    THEN registry[CHOOSE h \in DOMAIN registry : TRUE]
    ELSE NoSession

\* this.sessions.get(conversationId), lines 806 and 817
getSession(registry, conversationId) ==
    IF conversationId \in DOMAIN registry THEN registry[conversationId]
    ELSE NoSession

\* an encryptMessage whose sessions share one ratchet
encryptMessageSharedRatchet(registry, conversationId, plaintext, time) ==
    LET session == getSession(registry, conversationId)
        r == encrypt(session.ratchet, plaintext)
    IN IF session = NoSession
       THEN [sessions |-> registry, error |-> "SessionNotFound",
             output |-> NoHandle]
       ELSE [sessions |-> [h \in DOMAIN registry |->
                              IF h = session.conversationId
                              THEN [session EXCEPT !.lastUsed = time,
                                                   !.ratchet = r.state]
                              ELSE [registry[h] EXCEPT !.ratchet = r.state]],
             error |-> NoError, output |-> r.message]

\* encryptMessage returns the registry it leaves, its error and its output;
\* the session object is updated in place
encryptMessage(registry, conversationId, plaintext, time) ==
    LET session == getSession(registry, conversationId)
        r == encrypt(session.ratchet, plaintext)
    IN IF session = NoSession
       THEN [sessions |-> registry, error |-> "SessionNotFound",
             output |-> NoHandle]
       ELSE [sessions |-> [registry EXCEPT
                              ![session.conversationId] =
                                  [session EXCEPT !.lastUsed = time,
                                                  !.ratchet = r.state]],
             error |-> NoError, output |-> r.message]

\* a decryptMessage that stamps the session only when decrypt succeeds
decryptMessageStampsOnSuccess(registry, conversationId, encryptedMessage, time, newKeyPair) ==
    LET session == getSession(registry, conversationId)
        r == decrypt(session.ratchet, encryptedMessage, newKeyPair)
    IN IF session = NoSession
       THEN [sessions |-> registry, error |-> "SessionNotFound",
             output |-> NoHandle]
       ELSE [sessions |-> [registry EXCEPT
                              ![session.conversationId] =
                                  [session EXCEPT
                                      !.lastUsed = IF r.error = NoError
                                                   THEN time ELSE @,
                                      !.ratchet = r.state]],
             error |-> r.error,
             output |-> IF r.error = NoError THEN r.plaintext ELSE NoHandle]

decryptMessage(registry, conversationId, encryptedMessage, time, newKeyPair) ==
    LET session == getSession(registry, conversationId)
        r == decrypt(session.ratchet, encryptedMessage, newKeyPair)
    IN IF session = NoSession
       THEN [sessions |-> registry, error |-> "SessionNotFound",
             output |-> NoHandle]
       ELSE [sessions |-> [registry EXCEPT
                              ![session.conversationId] =
                                  [session EXCEPT !.lastUsed = time,
                                                  !.ratchet = r.state]],
             error |-> r.error,
             output |-> IF r.error = NoError THEN r.plaintext ELSE NoHandle]

\* session.lastUsed < cutoff, with cutoff = Date.now() - seven days (line 891)
idleBeyondCutoff(session, time) == session.lastUsed + SevenDays < time

cleanupOldSessions(registry, time) ==
    [h \in {k \in DOMAIN registry : ~idleBeyondCutoff(registry[k], time)} |->
        registry[h]]

\* an encrypt call that has not started
IdleEncrypt == [pc |-> "idle", derived |-> NoKey, sealed |-> NoKey,
                dhPublicKey |-> NoKey, message |-> NoMessage]

Init ==
    /\ ratchet = [p \in Party |-> IF p = "alice" THEN AliceSession ELSE BobSession]
    /\ keyGen = 6
    /\ sent = [p \in Party |-> <<>>]
    /\ presented = [p \in Party |-> {}]
    /\ accepted = [p \in Party |-> {}]
    /\ rejected = [p \in Party |-> {}]
    /\ ordered = TRUE
    /\ injected = 0
    /\ chainUses = [p \in Party |-> {}]
    /\ chainReused = [p \in Party |-> FALSE]
    /\ last = [op |-> "init", who |-> "alice", kind |-> "init", index |-> 0,
               message |-> NoMessage, error |-> NoError,
               plaintext |-> NoPlaintext, before |-> AliceSession]
    /\ identityKeyPair = NoKey
    /\ preKeys = <<>>
    /\ oneTimePreKeys = <<>>
    /\ sessions = <<>>
    /\ now = 0
    /\ published = NotPublished
    /\ initializing = "idle"
    /\ initialized = FALSE
    /\ handshakes = <<>>
    /\ calls = [c \in 1..MaxAccept |-> IdleCall]
    /\ dh4Uses = <<>>
    /\ identityHistory = <<>>
    /\ starts = [c \in 1..MaxStart |-> IdleStart]
    /\ lastCall = NoCall
    /\ encrypting = [c \in 1..MaxConcurrent |-> IdleEncrypt]
    /\ overlapped = FALSE

\* p has passed the chain keys in uses to deriveMessageKey, in that order
RecordUses(p, uses) ==
    LET again == \/ \E i \in 1..Len(uses) : uses[i] \in chainUses[p]
                 \/ \E i, j \in 1..Len(uses) : i # j /\ uses[i] = uses[j]
    IN /\ chainUses' = [chainUses EXCEPT
                           ![p] = @ \cup {uses[i] : i \in 1..Len(uses)}]
       /\ chainReused' = [chainReused EXCEPT ![p] = @ \/ again]

\* p calls encrypt(plaintext) and hands the message to the network
Encrypt(p, limit) ==
    LET plaintext == Plaintext(p, Len(sent[p]) + 1)
        r == encrypt(ratchet[p], plaintext)
    IN /\ Len(sent[p]) < limit
       /\ ratchet' = [ratchet EXCEPT ![p] = r.state]
       /\ sent' = [sent EXCEPT ![p] = Append(@, r.message)]
       /\ last' = [op |-> "encrypt", who |-> p, kind |-> "encrypt",
                   index |-> Len(sent[p]) + 1, message |-> r.message,
                   error |-> NoError, plaintext |-> plaintext,
                   before |-> ratchet[p]]
       /\ RecordUses(p, <<ratchet[p].chainKeySend>>)
       /\ UNCHANGED <<keyGen, presented, accepted, rejected, ordered, injected>>
       /\ UNCHANGED <<kvars, cvars>>

\* q calls decrypt(message); performDHRatchet draws a key pair once its
\* skipMessageKeys call has returned
Receive(q, message, kind, index) ==
    LET r == decrypt(ratchet[q], message, KeyPair(keyGen + 1))
        generated == /\ needsDHRatchet(ratchet[q], message)
                     /\ r.error # "SkippedTooMany" \/ r.state.dhSend # ratchet[q].dhSend
    IN /\ ratchet' = [ratchet EXCEPT ![q] = r.state]
       /\ keyGen' = IF generated THEN keyGen + 1 ELSE keyGen
       /\ accepted' = IF kind = "genuine" /\ r.error = NoError
                      THEN [accepted EXCEPT ![q] = @ \cup {index}]
                      ELSE accepted
       /\ rejected' = IF kind = "altered" /\ r.error = "AuthenticationFailure"
                      THEN [rejected EXCEPT ![q] = @ \cup {index}]
                      ELSE rejected
       /\ last' = [op |-> "decrypt", who |-> q, kind |-> kind, index |-> index,
                   message |-> message, error |-> r.error,
                   plaintext |-> r.plaintext, before |-> ratchet[q]]
       /\ RecordUses(q, decryptUses(ratchet[q], message, KeyPair(keyGen + 1)))
       /\ UNCHANGED <<kvars, cvars>>

\* the network delivers the i-th message of q's peer, not delivered before
Deliver(q, i) ==
    /\ i \in 1..Len(sent[peer(q)])
    /\ i \notin presented[q]
    /\ Receive(q, sent[peer(q)][i], "genuine", i)
    /\ presented' = [presented EXCEPT ![q] = @ \cup {i}]
    /\ ordered' = (ordered /\ presented[q] = 1..(i - 1))
    /\ UNCHANGED <<sent, injected>>

\* the network delivers again a message q has already decrypted
Replay(q, i, limit) ==
    /\ injected < limit
    /\ i \in accepted[q]
    /\ Receive(q, sent[peer(q)][i], "replayed", i)
    /\ injected' = injected + 1
    /\ ordered' = FALSE
    /\ UNCHANGED <<sent, presented>>

\* the network delivers a copy of the i-th message with one ciphertext bit flipped
Tamper(q, i) ==
    /\ injected < MaxInject
    /\ i \in 1..Len(sent[peer(q)])
    /\ Receive(q, [sent[peer(q)][i] EXCEPT !.ciphertext.intact = FALSE],
               "altered", i)
    /\ injected' = injected + 1
    /\ UNCHANGED <<sent, presented, ordered>>

\* the header values a forger tries: the header travels outside the AEAD
ForgedKeys(q) ==
    {exportKey(KeyPair(0).publicKey)}
        \cup {sent[peer(q)][j].header.dhPublicKey : j \in 1..Len(sent[peer(q)])}
ForgedCounters == {0, 1, MAX_SKIP, MAX_SKIP + 1}

\* the network delivers the ciphertext of the i-th message under another header
Forge(q, i, dhPublicKey, pn, n) ==
    LET header == [dhPublicKey |-> dhPublicKey, pn |-> pn, n |-> n]
    IN /\ injected < MaxForge
       /\ i \in 1..Len(sent[peer(q)])
       /\ header # sent[peer(q)][i].header
       /\ Receive(q, [sent[peer(q)][i] EXCEPT !.header = header], "forged", i)
       /\ injected' = injected + 1
       /\ UNCHANGED <<sent, presented, ordered>>

\* the network delivers the oldest message of q's peer not yet delivered
DeliverNext(q) ==
    \E i \in 1..Len(sent[peer(q)]) :
        /\ presented[q] = 1..(i - 1)
        /\ Deliver(q, i)

\* a network that may reorder, replay and alter messages
Next ==
    \/ \E p \in Party : Encrypt(p, MaxSend)
    \/ \E q \in Party, i \in 1..MaxSend : Deliver(q, i)
    \/ \E q \in Party, i \in 1..MaxSend : Replay(q, i, MaxInject)
    \/ \E q \in Party, i \in 1..MaxSend : Tamper(q, i)

Spec == Init /\ [][Next]_vars

\* a network that delivers every message once and in order
NextInOrder ==
    \/ \E p \in Party : Encrypt(p, MaxSendInOrder)
    \/ \E q \in Party : DeliverNext(q)

SpecInOrder == Init /\ [][NextInOrder]_vars

\* a network that may reorder messages, under a long one-way conversation
NextLong ==
    \/ Encrypt("alice", MaxSendLong)
    \/ Encrypt("bob", 1)
    \/ \E q \in Party, i \in 1..MaxSendLong : Deliver(q, i)

SpecLong == Init /\ [][NextLong]_vars

\* a network that may reorder and replay messages
NextReplay ==
    \/ \E p \in Party : Encrypt(p, MaxSendReplay)
    \/ \E q \in Party, i \in 1..MaxSendReplay : Deliver(q, i)
    \/ \E q \in Party, i \in 1..MaxSendReplay : Replay(q, i, MaxReplay)

SpecReplay == Init /\ [][NextReplay]_vars

\* a network that may reorder messages and forge their headers
NextForge ==
    \/ \E p \in Party : Encrypt(p, MaxSendForge)
    \/ \E q \in Party, i \in 1..MaxSendForge : Deliver(q, i)
    \/ \E q \in Party, i \in 1..MaxSendForge :
          \E dhPublicKey \in ForgedKeys(q), pn \in ForgedCounters,
             n \in ForgedCounters : Forge(q, i, dhPublicKey, pn, n)

SpecForge == Init /\ [][NextForge]_vars

----------------------------------------------------------------------------
(* KeyManagementService: one action per stretch of a call between awaits *)

\* initialize(), up to line 659: the identity key is generated and stored
GenerateIdentityKey ==
    /\ initializing = "idle"
    /\ identityKeyPair' = KeyPair(keyGen + 1)
    /\ identityHistory' = Append(identityHistory, KeyPair(keyGen + 1))
    /\ keyGen' = keyGen + 1
    /\ initialized' = TRUE
    /\ initializing' = "signedPreKey"
    /\ UNCHANGED <<preKeys, oneTimePreKeys, sessions, now, published,
                   handshakes, calls, dh4Uses, starts, lastCall>>
    /\ UNCHANGED <<nvars, cvars>>

\* the first initialize(), when the account is created
InitializeIdentity ==
    /\ ~initialized
    /\ GenerateIdentityKey

\* a further initialize()
InitializeAgain ==
    /\ initialized
    /\ Len(identityHistory) < MaxInitialize
    /\ GenerateIdentityKey

\* initialize(), lines 662-665: the signed prekey is generated and stored
InitializeSignedPreKey ==
    LET signedPreKey == generateSignedPreKey(identityKeyPair.privateKey,
                                             KeyPair(keyGen + 1))
    IN /\ initializing = "signedPreKey"
       /\ preKeys' = MapSet(preKeys, "signed-1", signedPreKey.keyPair)
       /\ keyGen' = keyGen + 1
       /\ initializing' = "oneTimePreKeys"
       /\ UNCHANGED <<identityKeyPair, oneTimePreKeys, sessions, now, published,
                      initialized, handshakes, calls, dh4Uses>>
       /\ UNCHANGED rvars
    /\ UNCHANGED <<nvars, cvars>>

\* initialize(), lines 668-671: the one-time prekeys are generated and stored
InitializeOneTimePreKeys ==
    /\ initializing = "oneTimePreKeys"
    /\ oneTimePreKeys' =
          [id \in DOMAIN oneTimePreKeys
                  \cup {OneTimeId(i) : i \in 0..(OneTimePreKeyCount - 1)} |->
              IF \E i \in 0..(OneTimePreKeyCount - 1) : id = OneTimeId(i)
              THEN KeyPair(keyGen + 1 + id.onetime)
              ELSE oneTimePreKeys[id]]
    /\ keyGen' = keyGen + OneTimePreKeyCount
    /\ initializing' = "upload"
    /\ UNCHANGED <<identityKeyPair, preKeys, sessions, now, published,
                   initialized, handshakes, calls, dh4Uses>>
    /\ UNCHANGED rvars
    /\ UNCHANGED <<nvars, cvars>>

\* uploadPublicKeys, lines 827-864; the loop over the pool is taken as one step
UploadPublicKeys ==
    /\ initializing = "upload"
    /\ published' =
          IF identityKeyPair = NoKey \/ MapGet(preKeys, "signed-1") = NoKey
          THEN published
          ELSE [identityKey |-> exportKey(identityKeyPair.publicKey),
                signedPreKey |-> exportKey(preKeys["signed-1"].publicKey),
                oneTimePreKeys |-> [id \in DOMAIN oneTimePreKeys |->
                                       exportKey(oneTimePreKeys[id].publicKey)]]
    /\ initializing' = "idle"
    /\ UNCHANGED <<identityKeyPair, preKeys, oneTimePreKeys, sessions, now,
                   initialized, handshakes, calls, dh4Uses, keyGen>>
    /\ UNCHANGED rvars
    /\ UNCHANGED <<nvars, cvars>>

\* a remote startConversation, lines 680-695: the directory serves a bundle
\* from what was published, with one of the one-time prekeys or none; the
\* initiator runs performX3DH and sends its ephemeral key and the key ids
RemoteHandshake(oneTimePreKeyId) ==
    LET bundle == [identityKey |-> published.identityKey,
                   signedPreKey |-> published.signedPreKey,
                   oneTimePreKey |-> MapGet(published.oneTimePreKeys,
                                            oneTimePreKeyId)]
        ephemeralKeyPair == KeyPair(keyGen + 1)
    IN /\ published # NotPublished
       /\ Len(handshakes) < MaxHandshakes
       /\ oneTimePreKeyId \in DOMAIN published.oneTimePreKeys \cup {NoId}
       /\ handshakes' = Append(handshakes,
             [ephemeralPublicKey |-> exportKey(ephemeralKeyPair.publicKey),
              signedPreKeyId |-> "signed-1",
              oneTimePreKeyId |-> oneTimePreKeyId,
              bundle |-> bundle,
              sharedKey |-> performX3DH(AliceIdentity, ephemeralKeyPair, bundle)])
       /\ keyGen' = keyGen + 1
       /\ UNCHANGED <<identityKeyPair, preKeys, oneTimePreKeys, sessions, now,
                      published, initializing, initialized, calls, dh4Uses>>
       /\ UNCHANGED rvars
    /\ UNCHANGED <<nvars, cvars>>

\* acceptConversation, lines 720-735: look the key pairs up, throw when the
\* signed prekey is unknown, remove the one-time prekey, start the fetch;
\* calls are numbered in the order in which they start
AcceptBegin(c, h, signedPreKeyId) ==
    LET oneTimePreKeyId == handshakes[h].oneTimePreKeyId
        signedPreKeyPair == MapGet(preKeys, signedPreKeyId)
        oneTimePreKeyPair == IF oneTimePreKeyId # NoId
                             THEN MapGet(oneTimePreKeys, oneTimePreKeyId)
                             ELSE NoKey
        call == [calls[c] EXCEPT
                    !.handshake = h,
                    !.ephemeralPublicKey = handshakes[h].ephemeralPublicKey,
                    !.signedPreKeyId = signedPreKeyId,
                    !.oneTimePreKeyId = oneTimePreKeyId,
                    !.signedPreKeyPair = signedPreKeyPair,
                    !.oneTimePreKeyPair = oneTimePreKeyPair]
    IN /\ calls[c].pc = "idle"
       /\ \A d \in 1..(c - 1) : calls[d].pc # "idle"
       /\ h \in 1..Len(handshakes)
       /\ calls' = [calls EXCEPT ![c] =
             [call EXCEPT !.pc = IF signedPreKeyPair = NoKey
                                 THEN "notFound" ELSE "fetching"]]
       /\ oneTimePreKeys' =
             poolAfterLookup(oneTimePreKeys, signedPreKeyPair, oneTimePreKeyId)
       /\ UNCHANGED <<identityKeyPair, preKeys, sessions, now, published,
                      initializing, initialized, handshakes, dh4Uses, keyGen>>
       /\ UNCHANGED rvars
    /\ UNCHANGED <<nvars, cvars>>

\* acceptConversation, line 735: the fetch of the sender's identity key fails
AcceptFetchFails(c) ==
    /\ calls[c].pc = "fetching"
    /\ calls' = [calls EXCEPT ![c].pc = "failed"]
    /\ UNCHANGED <<identityKeyPair, preKeys, oneTimePreKeys, sessions, now,
                   published, initializing, initialized, handshakes, dh4Uses,
                   keyGen>>
    /\ UNCHANGED rvars
    /\ UNCHANGED <<nvars, cvars>>

\* acceptConversation, lines 735-790: the fetch returns the sender's identity
\* key; the shared secret and the ratchet are computed
AcceptDerive(c) ==
    LET call == calls[c]
        senderIdentityKey == exportKey(AliceIdentity.publicKey)
    IN /\ call.pc = "fetching"
       /\ IF identityKeyPair = NoKey
          THEN /\ calls' = [calls EXCEPT ![c].pc = "failed"]
               /\ UNCHANGED dh4Uses
          ELSE /\ calls' = [calls EXCEPT
                    ![c].pc = "registering",
                    ![c].identityKeyPair = identityKeyPair,
                    ![c].sharedKey =
                        responderX3DH(identityKeyPair, call.signedPreKeyPair,
                                      call.oneTimePreKeyPair, senderIdentityKey,
                                      call.ephemeralPublicKey)]
               /\ dh4Uses' = IF call.oneTimePreKeyPair # NoKey
                             THEN Append(dh4Uses, call.oneTimePreKeyPair)
                             ELSE dh4Uses
       /\ UNCHANGED <<identityKeyPair, preKeys, oneTimePreKeys, sessions, now,
                      published, initializing, initialized, handshakes, keyGen>>
       /\ UNCHANGED rvars
    /\ UNCHANGED <<nvars, cvars>>

\* acceptConversation, lines 792-801: the session is stored under its handle
AcceptRegister(c, random) ==
    LET call == calls[c]
        conversationId == [time |-> now, random |-> random]
    IN /\ call.pc = "registering"
       /\ sessions' = MapSet(sessions, conversationId,
             [conversationId |-> conversationId,
              ratchet |-> initializeBob(call.sharedKey, call.signedPreKeyPair),
              createdAt |-> now,
              lastUsed |-> now])
       /\ calls' = [calls EXCEPT ![c].pc = "done",
                                 ![c].conversationId = conversationId]
       /\ UNCHANGED <<identityKeyPair, preKeys, oneTimePreKeys, now, published,
                      initializing, initialized, handshakes, dh4Uses, keyGen>>
       /\ lastCall' = [op |-> "acceptConversation", handle |-> conversationId,
                       error |-> NoError, output |-> conversationId,
                       before |-> sessions, time |-> now]
       /\ UNCHANGED <<identityHistory, starts>>
    /\ UNCHANGED <<nvars, cvars>>

NextService ==
    \/ InitializeIdentity
    \/ InitializeSignedPreKey
    \/ InitializeOneTimePreKeys
    \/ UploadPublicKeys
    \/ \E i \in 0..(OneTimePreKeyCount - 1) : RemoteHandshake(OneTimeId(i))
    \/ RemoteHandshake(NoId)
    \/ \E c \in 1..MaxAccept, h \in 1..MaxHandshakes, id \in SignedPreKeyIds :
          AcceptBegin(c, h, id)
    \/ \E c \in 1..MaxAccept : AcceptFetchFails(c)
    \/ \E c \in 1..MaxAccept : AcceptDerive(c)
    \/ \E c \in 1..MaxAccept, random \in RandomSuffixes : AcceptRegister(c, random)

SpecService == Init /\ [][NextService]_vars

----------------------------------------------------------------------------
(* DoubleRatchet.encrypt on one session, one await at a time *)

InFlightEncrypt(c) == encrypting[c].pc \notin {"idle", "done"}

\* encrypt up to the await of line 427: deriveMessageKey is called with the
\* sending chain key of this moment
EncryptBegin(c) ==
    /\ encrypting[c].pc = "idle"
    /\ encrypting' = [encrypting EXCEPT
          ![c].pc = "deriveMessageKey",
          ![c].derived = encryptDerive(ratchet["alice"])]
    /\ overlapped' = (overlapped \/ \E d \in 1..MaxConcurrent : InFlightEncrypt(d))
    /\ UNCHANGED <<nvars, keyGen, kvars>>

\* line 428 and the call of encryptAESGCM at lines 431-434
EncryptStoreChain(c) ==
    /\ encrypting[c].pc = "deriveMessageKey"
    /\ ratchet' = [ratchet EXCEPT
          !["alice"] = encryptStoreChain(@, encrypting[c].derived)]
    /\ encrypting' = [encrypting EXCEPT
          ![c].pc = "encryptAESGCM",
          ![c].sealed = encryptAESGCM(encrypting[c].derived.messageKey,
                                      encode(Plaintext("alice", c)))]
    /\ UNCHANGED <<sent, presented, accepted, rejected, ordered, injected, last,
                   chainUses, chainReused, keyGen, kvars, overlapped>>

\* line 437: exportKey is called with the sending DH key of this moment
EncryptExport(c) ==
    /\ encrypting[c].pc = "encryptAESGCM"
    /\ encrypting' = [encrypting EXCEPT
          ![c].pc = "exportKey",
          ![c].dhPublicKey = exportKey(ratchet["alice"].dhSend.publicKey)]
    /\ UNCHANGED <<nvars, keyGen, kvars, overlapped>>

\* lines 439-451: the header is built from Pn and Ns of this moment, Ns grows
EncryptFinish(c) ==
    /\ encrypting[c].pc = "exportKey"
    /\ encrypting' = [encrypting EXCEPT
          ![c].pc = "done",
          ![c].message = encryptMessageOf(ratchet["alice"],
                                          encrypting[c].dhPublicKey,
                                          encrypting[c].sealed)]
    /\ ratchet' = [ratchet EXCEPT !["alice"] = encryptCount(@)]
    /\ UNCHANGED <<sent, presented, accepted, rejected, ordered, injected, last,
                   chainUses, chainReused, keyGen, kvars, overlapped>>

NextConcurrent ==
    \/ \E c \in 1..MaxConcurrent : EncryptBegin(c)
    \/ \E c \in 1..MaxConcurrent : EncryptStoreChain(c)
    \/ \E c \in 1..MaxConcurrent : EncryptExport(c)
    \/ \E c \in 1..MaxConcurrent : EncryptFinish(c)

SpecConcurrent == Init /\ [][NextConcurrent]_vars

----------------------------------------------------------------------------
(* KeyManagementService: the session registry *)

\* Date.now() advances
Tick ==
    /\ now < MaxClock
    /\ now' = now + 1
    /\ UNCHANGED <<identityKeyPair, preKeys, oneTimePreKeys, sessions, published,
                   initializing, initialized, handshakes, calls, dh4Uses, keyGen>>
    /\ UNCHANGED rvars
    /\ UNCHANGED <<nvars, cvars>>

\* startConversation, lines 679-680: the fetch of the recipient's bundle starts
StartBegin(c) ==
    /\ starts[c].pc = "idle"
    /\ \A d \in 1..(c - 1) : starts[d].pc # "idle"
    /\ starts' = [starts EXCEPT ![c].pc = "fetching"]
    /\ UNCHANGED <<identityKeyPair, preKeys, oneTimePreKeys, sessions, now,
                   published, initializing, initialized, handshakes, calls,
                   dh4Uses, keyGen, identityHistory, lastCall>>
    /\ UNCHANGED <<nvars, cvars>>

\* startConversation, line 680: the fetch fails and the call throws
StartFetchFails(c) ==
    /\ starts[c].pc = "fetching"
    /\ starts' = [starts EXCEPT ![c].pc = "failed"]
    /\ UNCHANGED <<identityKeyPair, preKeys, oneTimePreKeys, sessions, now,
                   published, initializing, initialized, handshakes, calls,
                   dh4Uses, keyGen, identityHistory, lastCall>>
    /\ UNCHANGED <<nvars, cvars>>

\* startConversation, lines 683-699: the ephemeral key, performX3DH and
\* initializeAlice, which generates the first ratchet key
StartDerive(c) ==
    /\ starts[c].pc = "fetching"
    /\ IF identityKeyPair = NoKey
       THEN /\ starts' = [starts EXCEPT ![c].pc = "failed"]
            /\ UNCHANGED keyGen
       ELSE /\ starts' = [starts EXCEPT
                 ![c].pc = "registering",
                 ![c].ratchet =
                     initializeAlice(
                         performX3DH(identityKeyPair, KeyPair(keyGen + 1),
                                     BobBundle),
                         BobBundle.signedPreKey, KeyPair(keyGen + 2))]
            /\ keyGen' = keyGen + 2
    /\ UNCHANGED <<identityKeyPair, preKeys, oneTimePreKeys, sessions, now,
                   published, initializing, initialized, handshakes, calls,
                   dh4Uses, identityHistory, lastCall>>
    /\ UNCHANGED <<nvars, cvars>>

\* startConversation, lines 701-710: the session is stored under its handle
StartRegister(c, random) ==
    LET conversationId == [time |-> now, random |-> random]
    IN /\ starts[c].pc = "registering"
       /\ sessions' = MapSet(sessions, conversationId,
             [conversationId |-> conversationId,
              ratchet |-> starts[c].ratchet,
              createdAt |-> now,
              lastUsed |-> now])
       /\ starts' = [starts EXCEPT ![c].pc = "done",
                                   ![c].conversationId = conversationId]
       /\ lastCall' = [op |-> "startConversation", handle |-> conversationId,
                       error |-> NoError, output |-> conversationId,
                       before |-> sessions, time |-> now]
       /\ UNCHANGED <<identityKeyPair, preKeys, oneTimePreKeys, now, published,
                      initializing, initialized, handshakes, calls, dh4Uses,
                      keyGen, identityHistory>>
    /\ UNCHANGED <<nvars, cvars>>

\* the handles a caller may hold: those the calls returned, whether or not
\* the session is still registered, and one that was never returned
Handles ==
    ({calls[c].conversationId : c \in 1..MaxAccept}
        \cup {starts[c].conversationId : c \in 1..MaxStart}
        \cup {UnknownHandle}) \ {NoHandle}

\* the first message of the initiator of handshake h
PeerMessage(h) ==
    encrypt(initializeAlice(handshakes[h].sharedKey,
                            handshakes[h].bundle.signedPreKey,
                            AliceFirstRatchetKey),
            Plaintext("alice", h)).message

\* encryptMessage(conversationId, plaintext)
EncryptMessage(conversationId) ==
    LET r == encryptMessage(sessions, conversationId, Plaintext("bob", 1), now)
    IN /\ conversationId \in DOMAIN sessions =>
              sessions[conversationId].ratchet.ns < MaxSessionSend
       /\ sessions' = r.sessions
       /\ lastCall' = [op |-> "encryptMessage", handle |-> conversationId,
                       error |-> r.error, output |-> r.output,
                       before |-> sessions, time |-> now]
       /\ UNCHANGED <<identityKeyPair, preKeys, oneTimePreKeys, now, published,
                      initializing, initialized, handshakes, calls, dh4Uses,
                      keyGen, identityHistory, starts>>
    /\ UNCHANGED <<nvars, cvars>>

\* decryptMessage(conversationId, encryptedMessage)
DecryptMessage(conversationId, h) ==
    LET r == decryptMessage(sessions, conversationId, PeerMessage(h), now,
                            KeyPair(keyGen + 1))
    IN /\ h \in 1..Len(handshakes)
       /\ conversationId \in DOMAIN sessions =>
              sessions[conversationId].ratchet.nr < MaxSessionReceive
       /\ sessions' = r.sessions
       /\ keyGen' = IF conversationId \in DOMAIN sessions
                    THEN keyGen + 1 ELSE keyGen
       /\ lastCall' = [op |-> "decryptMessage", handle |-> conversationId,
                       error |-> r.error, output |-> r.output,
                       before |-> sessions, time |-> now]
       /\ UNCHANGED <<identityKeyPair, preKeys, oneTimePreKeys, now, published,
                      initializing, initialized, handshakes, calls, dh4Uses,
                      identityHistory, starts>>
    /\ UNCHANGED <<nvars, cvars>>

\* cleanupOldSessions()
CleanupOldSessions ==
    /\ sessions' = cleanupOldSessions(sessions, now)
    /\ lastCall' = [op |-> "cleanupOldSessions", handle |-> NoHandle,
                    error |-> NoError, output |-> NoHandle,
                    before |-> sessions, time |-> now]
    /\ UNCHANGED <<identityKeyPair, preKeys, oneTimePreKeys, now, published,
                   initializing, initialized, handshakes, calls, dh4Uses,
                   keyGen, identityHistory, starts>>
    /\ UNCHANGED <<nvars, cvars>>

NextRegistry ==
    \/ InitializeIdentity
    \/ InitializeSignedPreKey
    \/ InitializeOneTimePreKeys
    \/ UploadPublicKeys
    \/ RemoteHandshake(NoId)
    \/ \E c \in 1..MaxAccept : AcceptBegin(c, c, "signed-1")
    \/ \E c \in 1..MaxAccept : AcceptDerive(c)
    \/ \E c \in 1..MaxAccept, random \in RandomSuffixes : AcceptRegister(c, random)
    \/ Tick
    \/ \E conversationId \in Handles : EncryptMessage(conversationId)
    \/ \E conversationId \in Handles, h \in 1..MaxHandshakes :
          DecryptMessage(conversationId, h)
    \/ CleanupOldSessions

SpecRegistry == Init /\ [][NextRegistry]_vars

\* the account over its life: initialize() may be called again
NextAccount ==
    \/ InitializeIdentity
    \/ InitializeAgain
    \/ InitializeSignedPreKey
    \/ InitializeOneTimePreKeys
    \/ UploadPublicKeys
    \/ RemoteHandshake(NoId)
    \/ \E c \in 1..MaxAccept, h \in 1..MaxHandshakes :
          AcceptBegin(c, h, "signed-1")
    \/ \E c \in 1..MaxAccept : AcceptDerive(c)
    \/ \E c \in 1..MaxAccept, random \in RandomSuffixes : AcceptRegister(c, random)
    \/ \E c \in 1..MaxStart : StartBegin(c)
    \/ \E c \in 1..MaxStart : StartFetchFails(c)
    \/ \E c \in 1..MaxStart : StartDerive(c)
    \/ \E c \in 1..MaxStart, random \in RandomSuffixes : StartRegister(c, random)

SpecAccount == Init /\ [][NextAccount]_vars

----------------------------------------------------------------------------
(* Properties of DoubleRatchet *)

\* the last call was a decrypt of a genuine message that returned its plaintext
ReturnedOriginal ==
    /\ last.error = NoError
    /\ last.plaintext = Plaintext(peer(last.who), last.index)

\* C1: with every message delivered once and in the order sent per direction,
\* and nothing else presented, each decrypt returns the plaintext that was
\* passed to the corresponding encrypt.
C1_RoundTrip ==
    (last.op = "decrypt" /\ ordered /\ injected = 0) => ReturnedOriginal

\* C2: when decrypt fails because AEAD authentication fails, every field of
\* the RatchetState has the value it had before the call.
C2_AuthFailureLeavesState ==
    (last.op = "decrypt" /\ last.error = "AuthenticationFailure")
        => ratchet[last.who] = last.before

\* C3: once decrypt has rejected an altered message, the genuine messages,
\* delivered once and in order, still decrypt to their plaintexts.
C3_RejectionDoesNotDesynchronize ==
    (/\ last.op = "decrypt" /\ last.kind = "genuine" /\ ordered
     /\ rejected[last.who] # {}) => ReturnedOriginal

\* the last call decrypted a genuine message later than a message that follows
\* it on the same chain and was decrypted before it
DeliveredLate ==
    /\ last.op = "decrypt" /\ last.kind = "genuine"
    /\ \E j \in accepted[last.who] :
          /\ j > last.index
          /\ sent[peer(last.who)][j].header.dhPublicKey
                = last.message.header.dhPublicKey

\* C4: a message skipped on its chain and delivered late decrypts to its
\* original plaintext.
C4_OutOfOrderDelivery ==
    (DeliveredLate /\ injected = 0) => ReturnedOriginal

\* C5: decrypt of a message the session has already decrypted fails and
\* returns no plaintext.
C5_ReplayRejected ==
    (last.op = "decrypt" /\ last.kind = "replayed")
        => (last.error # NoError /\ last.plaintext = NoPlaintext)

\* the last call decrypted a genuine message of the current receiving chain
\* whose counter was Nr + gap
OnCurrentChainAhead(gap) ==
    /\ last.op = "decrypt" /\ last.kind = "genuine"
    /\ ~needsDHRatchet(last.before, last.message)
    /\ last.message.header.n = last.before.nr + gap

\* C6: on the current receiving chain, N = Nr + MAX_SKIP decrypts and
\* N = Nr + MAX_SKIP + 1 fails with SkippedTooMany.
C6_SkipBoundary ==
    /\ OnCurrentChainAhead(MAX_SKIP) => ReturnedOriginal
    /\ OnCurrentChainAhead(MAX_SKIP + 1) => last.error = "SkippedTooMany"

\* C7: the skipped-key cache never holds more than MAX_SKIP entries.
C7_CacheBounded ==
    \A p \in Party : Cardinality(DOMAIN ratchet[p].skippedKeys) <= MAX_SKIP

\* a replayed message was presented and refused
C5_Witness ==
    /\ last.op = "decrypt" /\ last.kind = "replayed"
    /\ last.error = "AuthenticationFailure"
    /\ last.index \in accepted[last.who]

----------------------------------------------------------------------------
(* Properties of X3DH and KeyManagementService.acceptConversation *)

\* call c has derived its shared secret
Derived(c) == calls[c].pc \in {"registering", "done"}

\* call c used the key pairs whose public halves the initiator of its
\* handshake used: identity key, signed prekey and one-time prekey (or none)
SameKeyPairs(c) ==
    LET call == calls[c]
        bundle == handshakes[call.handshake].bundle
    IN /\ exportKey(call.identityKeyPair.publicKey) = bundle.identityKey
       /\ exportKey(call.signedPreKeyPair.publicKey) = bundle.signedPreKey
       /\ IF bundle.oneTimePreKey = NoKey
          THEN call.oneTimePreKeyPair = NoKey
          ELSE /\ call.oneTimePreKeyPair # NoKey
               /\ exportKey(call.oneTimePreKeyPair.publicKey) = bundle.oneTimePreKey

\* C8: for the same key pairs, the secret acceptConversation derives equals
\* the secret performX3DH derived, with and without a one-time prekey.
C8_X3DHSymmetry ==
    \A c \in 1..MaxAccept :
        (Derived(c) /\ SameKeyPairs(c))
            => calls[c].sharedKey = handshakes[calls[c].handshake].sharedKey

\* one call derived a 4-DH secret and another a 3-DH secret, each with the
\* key pairs of its initiator
C8_Witness ==
    \E c, d \in 1..MaxAccept :
        /\ Derived(c) /\ SameKeyPairs(c) /\ calls[c].oneTimePreKeyPair # NoKey
        /\ Derived(d) /\ SameKeyPairs(d) /\ calls[d].oneTimePreKeyPair = NoKey
        /\ handshakes[calls[d].handshake].bundle.oneTimePreKey = NoKey

\* C9: a one-time prekey pair is the DH4 operand of at most one
\* acceptConversation, and is then no longer in the pool.
C9_OneTimePreKeyUsedOnce ==
    /\ \A i, j \in 1..Len(dh4Uses) : i # j => dh4Uses[i] # dh4Uses[j]
    /\ \A i \in 1..Len(dh4Uses) :
          \A id \in DOMAIN oneTimePreKeys : oneTimePreKeys[id] # dh4Uses[i]

\* two calls naming the same one-time prekey have both derived their secret
C9_Witness ==
    \E c, d \in 1..MaxAccept :
        /\ c # d /\ Derived(c) /\ Derived(d)
        /\ calls[c].oneTimePreKeyId # NoId
        /\ calls[c].oneTimePreKeyId = calls[d].oneTimePreKeyId
        /\ Len(dh4Uses) = 1

\* call c is suspended at an await of acceptConversation
InFlight(c) == calls[c].pc \in {"fetching", "registering"}

\* call c went on past line 727 holding the key pair of a one-time prekey
Obtained(c) ==
    /\ calls[c].pc \in {"fetching", "registering", "done", "failed"}
    /\ calls[c].oneTimePreKeyPair # NoKey

\* C10: of the calls naming one one-time prekey, at most one obtains its key
\* pair, and whenever a call goes on with the pair it has left the pool.
C10_AtomicConsumption ==
    \A c \in 1..MaxAccept :
        Obtained(c) =>
            /\ \A d \in 1..MaxAccept \ {c} :
                  Obtained(d) =>
                      calls[d].oneTimePreKeyPair # calls[c].oneTimePreKeyPair
            /\ \A id \in DOMAIN oneTimePreKeys :
                  oneTimePreKeys[id] # calls[c].oneTimePreKeyPair

\* two calls naming the same one-time prekey are in flight together
C10_Witness ==
    \E c, d \in 1..MaxAccept :
        /\ c # d /\ InFlight(c) /\ InFlight(d)
        /\ calls[c].oneTimePreKeyId # NoId
        /\ calls[c].oneTimePreKeyId = calls[d].oneTimePreKeyId
        /\ Obtained(c)
        /\ ~Obtained(d)

----------------------------------------------------------------------------
(* Properties of the DH ratchet step and of the counters *)

\* Alice encrypted a first message that Bob decrypted, Bob then encrypted a
\* reply, and Alice has just decrypted it
FirstExchangeDone ==
    /\ last.op = "decrypt" /\ last.who = "alice" /\ last.error = NoError
    /\ injected = 0
    /\ Len(sent["alice"]) = 1 /\ accepted["bob"] = {1}
    /\ Len(sent["bob"]) = 1 /\ accepted["alice"] = {1}
    /\ sent["bob"][1].header.dhPublicKey # exportKey(BobSignedPreKey.publicKey)

\* C11 as stated: after the first exchange the root key in Alice's
\* RatchetState equals the root key in Bob's RatchetState.
C11_RootKeysEqual ==
    FirstExchangeDone => ratchet["alice"].rootKey = ratchet["bob"].rootKey

\* C11: after the first exchange Alice's root key is one root-KDF step ahead
\* of Bob's: it is the root key derived from Bob's root key and the DH output
\* of Alice's new ratchet key pair with Bob's current ratchet public key.
C11_RootKeysOneStepApart ==
    FirstExchangeDone =>
        ratchet["alice"].rootKey =
            deriveRootChainKeys(
                ratchet["bob"].rootKey,
                deriveSharedSecret(ratchet["alice"].dhSend.privateKey,
                                   ratchet["bob"].dhSend.publicKey)).newRootKey

\* the first exchange is complete and both parties hold a root key other than
\* the one their session started with
C11_Witness ==
    /\ FirstExchangeDone
    /\ last.plaintext = Plaintext("bob", 1)
    /\ ratchet["alice"].rootKey # AliceSession.rootKey
    /\ ratchet["bob"].rootKey # BobSession.rootKey

\* the last call was a decrypt that called performDHRatchet
RatchetCalled ==
    last.op = "decrypt" /\ needsDHRatchet(last.before, last.message)

\* what that performDHRatchet call returned: the state it left and its error
\* (the key pair it generated is the one the session now sends with)
RatchetStep ==
    performDHRatchet(last.before, importKey(last.message.header.dhPublicKey),
                     last.message.header, ratchet[last.who].dhSend)

RatchetCompleted == RatchetCalled /\ RatchetStep.error = NoError

\* C12: when performDHRatchet completes, Pn is the value Ns had before the
\* step and Ns is 0 (in the state it returns and in the state decrypt leaves);
\* no call that does not run performDHRatchet lowers Ns.
C12_SendCountersRollOver ==
    /\ RatchetCompleted =>
          /\ RatchetStep.state.pn = last.before.ns
          /\ RatchetStep.state.ns = 0
          /\ ratchet[last.who].pn = last.before.ns
          /\ ratchet[last.who].ns = 0
    /\ (last.op \in {"encrypt", "decrypt"} /\ ~RatchetCalled) =>
          ratchet[last.who].ns >= last.before.ns

\* a DH ratchet step has completed in a session that had sent messages on
\* the chain it closed
C12_Witness ==
    /\ RatchetCompleted
    /\ last.before.ns > 0
    /\ last.before.pn # last.before.ns
    /\ ratchet[last.who].pn = last.before.ns
    /\ ratchet[last.who].ns = 0

\* C13: when performDHRatchet completes, Nr is 0 whatever the header's Pn.
C13_NrResetAtRatchet ==
    RatchetCompleted => RatchetStep.state.nr = 0

\* the chain key reached from chainKey by k steps of the symmetric ratchet
RECURSIVE advance(_, _)
advance(chainKey, k) ==
    IF k = 0 THEN chainKey
    ELSE advance(deriveMessageKey(chainKey).nextChainKey, k - 1)

\* from state s to state t, Nr grew by one per key derived from the
\* receiving chain
NrCountsDerivedKeys(s, t) ==
    /\ t.nr >= s.nr
    /\ t.chainKeyRecv = advance(s.chainKeyRecv, t.nr - s.nr)

----------------------------------------------------------------------------
(* Post-ratchet secrecy and single use of chain keys *)

\* whether the byte string t can be computed from the byte strings in known
\* and the private scalars in privs: constants are public, and HMAC, HKDF,
\* slicing, concatenation and X25519 can be applied but not inverted
RECURSIVE Derivable(_, _, _)
Derivable(t, known, privs) ==
    \/ t \in known
    \/ "zeros" \in DOMAIN t
    \/ "utf8" \in DOMAIN t
    \/ /\ "key" \in DOMAIN t
       /\ Derivable(t.key, known, privs) /\ Derivable(t.data, known, privs)
    \/ /\ "of" \in DOMAIN t
       /\ Derivable(t.of, known, privs)
    \/ /\ "ikm" \in DOMAIN t
       /\ Derivable(t.ikm, known, privs) /\ Derivable(t.salt, known, privs)
       /\ Derivable(t.info, known, privs)
    \/ /\ "concat" \in DOMAIN t
       /\ \A i \in DOMAIN t.concat : Derivable(t.concat[i], known, privs)
    \/ /\ "dh" \in DOMAIN t
       /\ t.dh \cap privs # {}

\* the symmetric keys a RatchetState holds outside the skipped-key cache
StateKeys(s) == {s.rootKey, s.chainKeySend, s.chainKeyRecv}
CachedKeys(s) == {s.skippedKeys[k] : k \in DOMAIN s.skippedKeys}

\* the message keys of the chains the last DH ratchet step superseded: the
\* keys of the messages the session sent and accepted before the step
SupersededMessageKeys ==
    {sent[last.who][i].ciphertext.gcmKey : i \in 1..Len(sent[last.who])}
        \cup {sent[peer(last.who)][j].ciphertext.gcmKey :
                  j \in accepted[last.who] \ {last.index}}

\* the state performDHRatchet returned no longer holds the root key and chain
\* keys it found
SupersededKeysErased ==
    RatchetCompleted =>
        StateKeys(RatchetStep.state) \cap StateKeys(last.before) = {}

\* C15: after a DH ratchet step completes the state no longer contains the
\* superseded root key and chain keys, and no message key of a superseded
\* chain can be derived from it, other than the keys cached as skipped.
C15_PostRatchetSecrecy ==
    /\ SupersededKeysErased
    /\ RatchetCompleted =>
          \A k \in SupersededMessageKeys :
              \/ k \in CachedKeys(RatchetStep.state)
              \/ ~Derivable(k, StateKeys(RatchetStep.state),
                            {RatchetStep.state.dhSend.privateKey.priv})

\* C16: in one session every chain key value is passed to deriveMessageKey
\* at most once, and no two encrypt calls use the same message key.
C16_ChainKeysUsedOnce ==
    \A p \in Party :
        /\ ~chainReused[p]
        /\ \A i, j \in 1..Len(sent[p]) :
              i # j => sent[p][i].ciphertext.gcmKey # sent[p][j].ciphertext.gcmKey

----------------------------------------------------------------------------
(* Properties of encrypt and of the condition of the DH ratchet step *)

\* the index in sent[p] of the first message of the sending chain that the
\* i-th message of p belongs to
FirstOfChain(p, i) ==
    CHOOSE j \in 1..i :
        /\ sent[p][j].header.dhPublicKey = sent[p][i].header.dhPublicKey
        /\ \A h \in 1..(j - 1) :
              sent[p][h].header.dhPublicKey # sent[p][i].header.dhPublicKey

\* the chain key a message key was derived from
ChainKeyOf(messageKey) == messageKey.key

\* C27: encrypt emits a header with the current sending DH public key, the
\* current Pn and the value Ns had before the call, and then increments Ns;
\* hence the k-th message, counting from 0, of a sending chain carries N = k
\* and is encrypted under the k-th message key of that chain.
C27_HeaderCountsChain ==
    /\ last.op = "encrypt" =>
          /\ last.message.header.dhPublicKey
                = exportKey(last.before.dhSend.publicKey)
          /\ last.message.header.pn = last.before.pn
          /\ last.message.header.n = last.before.ns
          /\ ratchet[last.who].ns = last.before.ns + 1
          /\ last.message.ciphertext.gcmKey
                = deriveMessageKey(last.before.chainKeySend).messageKey
    /\ \A p \in Party : \A i \in 1..Len(sent[p]) :
          LET j == FirstOfChain(p, i)
              start == ChainKeyOf(sent[p][j].ciphertext.gcmKey)
          IN /\ sent[p][i].header.n = i - j
             /\ sent[p][i].ciphertext.gcmKey
                   = deriveMessageKey(advance(start, i - j)).messageKey

\* the header of the last decrypt carries a ratchet key other than the last
\* known remote key, or no remote key was known
HeaderKeyDiffers ==
    \/ last.before.dhRecv = NoKey
    \/ exportKey(last.before.dhRecv) # last.message.header.dhPublicKey

SendingKeysBefore ==
    {exportKey(last.before.dhSend.publicKey),
     exportKey((IF last.who = "alice" THEN AliceSession
                                      ELSE BobSession).dhSend.publicKey)}
        \cup {sent[last.who][i].header.dhPublicKey : i \in 1..Len(sent[last.who])}

\* C29: a DH ratchet step that completes installs a fresh own sending key
\* pair: it differs from every sending key the session had before, the
\* responder's signed prekey included, and the private key that produced the
\* new receiving chain is no longer in the state.
C29_FreshSendingKey ==
    RatchetCompleted =>
        /\ exportKey(ratchet[last.who].dhSend.publicKey) \notin SendingKeysBefore
        /\ exportKey(RatchetStep.state.dhSend.publicKey) \notin SendingKeysBefore
        /\ ratchet[last.who].dhSend.privateKey # last.before.dhSend.privateKey
        /\ RatchetStep.state.chainKeyRecv =
              deriveRootChainKeys(
                  last.before.rootKey,
                  deriveSharedSecret(last.before.dhSend.privateKey,
                                     importKey(last.message.header.dhPublicKey))
              ).chainKey

\* Bob, who has sent messages with the key pair of an earlier step, has
\* completed another DH ratchet step
C29_Witness ==
    /\ RatchetCompleted
    /\ last.who = "bob"
    /\ last.before.dhSend # BobSession.dhSend
    /\ \E i \in 1..Len(sent["bob"]) :
          sent["bob"][i].header.dhPublicKey = exportKey(last.before.dhSend.publicKey)

\* C37: encrypt touches only the sending side: it changes the sending chain
\* key and Ns and leaves the root key, the receiving chain key, the own and
\* the remote DH key, Pn, Nr and the skipped-key cache as they were.
C37_EncryptTouchesSendingSide ==
    last.op = "encrypt" =>
        LET s == last.before
            t == ratchet[last.who]
        IN /\ t = [s EXCEPT !.chainKeySend = t.chainKeySend, !.ns = t.ns]
           /\ t.chainKeySend # s.chainKeySend
           /\ t.ns # s.ns

\* a session that has received, skipped keys and taken a DH ratchet step
\* has encrypted a message
C37_Witness ==
    /\ last.op = "encrypt"
    /\ last.before.nr > 0
    /\ last.before.pn > 0
    /\ last.before.skippedKeys # <<>>

----------------------------------------------------------------------------
(* Agreement of the two parties on chains and root keys *)

\* the root-key derivation that gives the receiver its new receiving chain
\* in the performDHRatchet call of the last decrypt
ReceiverKDF ==
    deriveRootChainKeys(
        last.before.rootKey,
        deriveSharedSecret(last.before.dhSend.privateKey,
                           importKey(last.message.header.dhPublicKey)))

\* the last decrypt completed a DH ratchet step for the ratchet key its
\* sender sends with now
RatchetedToCurrentKey ==
    /\ RatchetCompleted
    /\ exportKey(ratchet[peer(last.who)].dhSend.publicKey)
          = last.message.header.dhPublicKey

\* C26: when a receiver has completed the DH ratchet step for the sender's
\* current ratchet key, the receiving chain it derived starts from the chain
\* key the sender's sending chain for that key started from, and the root key
\* of the receiver at that point of the derivation is the sender's root key;
\* Bob's first step reproduces the sending chain of initializeAlice.
C26_ChainAgreement ==
    /\ RatchetedToCurrentKey =>
          /\ RatchetStep.state.chainKeyRecv = ReceiverKDF.chainKey
          /\ ratchet[peer(last.who)].chainKeySend =
                advance(ReceiverKDF.chainKey, ratchet[peer(last.who)].ns)
          /\ ratchet[peer(last.who)].rootKey = ReceiverKDF.newRootKey
    /\ (/\ RatchetCompleted
        /\ last.who = "bob"
        /\ last.before.dhRecv = NoKey
        /\ last.message.header.dhPublicKey = exportKey(AliceSession.dhSend.publicKey))
          => RatchetStep.state.chainKeyRecv = AliceSession.chainKeySend

----------------------------------------------------------------------------
(* Properties of the skipped-key cache *)

\* the cache entries, as pairs of counter and key, that the performDHRatchet
\* call of the last decrypt added or overwrote
AddedAtRatchet ==
    LET old == last.before.skippedKeys
        new == RatchetStep.state.skippedKeys
    IN {<<k, new[k]>> : k \in {j \in DOMAIN new :
                                  j \notin DOMAIN old \/ old[j] # new[j]}}

\* the message keys at positions oldNr..Pn-1 of the receiving chain that the
\* step closes, each with its position
UnconsumedOfOldChain ==
    LET oldNr == last.before.nr
    IN {<<k, deriveMessageKey(advance(last.before.chainKeyRecv,
                                      k - oldNr)).messageKey>> :
           k \in oldNr..(last.message.header.pn - 1)}

\* C23: on a DH ratchet step triggered by a header with previous-chain length
\* Pn, the keys added to the skipped-key cache are exactly the message keys
\* at positions oldNr..Pn-1 of the old receiving chain, each under its own
\* counter.
C23_RatchetCachesUnconsumedKeys ==
    RatchetCompleted => AddedAtRatchet = UnconsumedOfOldChain

\* C24: skipped message keys are cached under the pair of remote ratchet
\* public key and counter, so a key skipped on one receiving chain is never
\* overwritten by a key skipped at the same counter on another receiving
\* chain: every entry the cache held before a decrypt is held unchanged
\* after it, unless that decrypt consumed it.
C24_SkippedKeysNotOverwritten ==
    last.op = "decrypt" =>
        \A k \in DOMAIN last.before.skippedKeys :
            \/ k \notin DOMAIN ratchet[last.who].skippedKeys
            \/ ratchet[last.who].skippedKeys[k] = last.before.skippedKeys[k]

\* the last call decrypted a late genuine message whose key was in the cache
ResolvedThroughCache ==
    /\ DeliveredLate
    /\ injected = 0
    /\ last.message.header.n \in DOMAIN last.before.skippedKeys

\* C25: when decrypt resolves a late message through the skipped-key cache it
\* returns the plaintext, removes that entry from the cache and leaves the
\* receiving chain key and Nr as they were.
C25_CachedKeySingleUse ==
    ResolvedThroughCache =>
        /\ ReturnedOriginal
        /\ last.message.header.n \notin DOMAIN ratchet[last.who].skippedKeys
        /\ ratchet[last.who].chainKeyRecv = last.before.chainKeyRecv
        /\ ratchet[last.who].nr = last.before.nr

\* C32: with every message delivered once and in the order sent, no decrypt
\* fails with SkippedTooMany, however many messages the chain before the DH
\* ratchet step carried.
C32_NoSpuriousSkippedTooMany ==
    (last.op = "decrypt" /\ ordered /\ injected = 0)
        => last.error # "SkippedTooMany"

----------------------------------------------------------------------------
(* Origin of the message keys *)

\* the chain key is the placeholder of 32 zero bytes or was reached from it
\* by steps of the symmetric ratchet
RECURSIVE FromPlaceholder(_)
FromPlaceholder(chainKey) ==
    \/ chainKey = zeros(32)
    \/ /\ "key" \in DOMAIN chainKey
       /\ FromPlaceholder(chainKey.key)

\* C33: no message is protected by an uninitialised chain: no message key
\* that encrypt used or decrypt accepted was derived from the placeholder
\* chain key; every one descends from the X3DH shared secret through the
\* root-key derivation.
C33_NoPlaceholderChain ==
    /\ \A p \in Party : \A i \in 1..Len(sent[p]) :
          ~FromPlaceholder(ChainKeyOf(sent[p][i].ciphertext.gcmKey))
    /\ (last.op = "decrypt" /\ last.error = NoError) =>
          ~FromPlaceholder(ChainKeyOf(last.message.ciphertext.gcmKey))

----------------------------------------------------------------------------
(* Properties of the session registry of KeyManagementService *)

\* the last call on the registry was encryptMessage or decryptMessage with a
\* handle that was not registered when the call was made
UnknownHandleCall ==
    /\ lastCall.op \in {"encryptMessage", "decryptMessage"}
    /\ lastCall.handle \notin DOMAIN lastCall.before

\* C17: encryptMessage and decryptMessage called with a handle that is not in
\* the registry fail with SessionNotFound, return no output, and leave the
\* registry and every session in it as they were; handles evicted by
\* cleanupOldSessions are among them.
C17_UnknownHandleRejected ==
    UnknownHandleCall =>
        /\ lastCall.error = "SessionNotFound"
        /\ lastCall.output = NoHandle
        /\ sessions = lastCall.before

\* decryptMessage was called with a handle that acceptConversation returned and
\* cleanupOldSessions evicted, while another session was registered
C17_Witness ==
    /\ UnknownHandleCall
    /\ lastCall.op = "decryptMessage"
    /\ \E c \in 1..MaxAccept : calls[c].conversationId = lastCall.handle
    /\ lastCall.before # <<>>
    /\ lastCall.error = "SessionNotFound"

\* the handles of the sessions that were last used more than seven days
\* before the last call on the registry
IdleBeyondSevenDays ==
    {h \in DOMAIN lastCall.before :
        lastCall.before[h].lastUsed < lastCall.time - SevenDays}

\* what cleanupOldSessions itself does: it removes exactly the sessions last
\* used more than seven days before the current time and leaves the others
\* as they were
CleanupEvictsExactlyIdleSessions ==
    lastCall.op = "cleanupOldSessions" =>
        /\ DOMAIN sessions = DOMAIN lastCall.before \ IdleBeyondSevenDays
        /\ \A h \in DOMAIN sessions :
              /\ sessions[h] = lastCall.before[h]
              /\ sessions[h].lastUsed + SevenDays >= lastCall.time

\* the last call on the registry stored a new session
Registered == lastCall.op \in {"startConversation", "acceptConversation"}

\* the sessions that were registered before the last call and are not the
\* new one are registered as they were
EarlierSessionsKept ==
    \A h \in DOMAIN lastCall.before :
        /\ h \in DOMAIN sessions
        /\ Registered => sessions[h] = lastCall.before[h]

\* C18: cleanupOldSessions removes exactly the sessions last used more than
\* seven days before the current time: no session that remains has been idle
\* beyond seven days, every session used within the last seven days is still
\* registered with the state it had, and no other operation removes a session.
C18_CleanupEvictsExactlyIdleSessions ==
    /\ CleanupEvictsExactlyIdleSessions
    /\ lastCall.op # "cleanupOldSessions" => EarlierSessionsKept

\* C19: startConversation and acceptConversation register the new session
\* under a handle that differs from every handle already in the registry:
\* the call adds exactly one session and neither replaces nor alters a
\* session that was registered.
C19_FreshHandle ==
    Registered =>
        /\ lastCall.handle \notin DOMAIN lastCall.before
        /\ Cardinality(DOMAIN sessions) = Cardinality(DOMAIN lastCall.before) + 1
        /\ \A h \in DOMAIN lastCall.before :
              h \in DOMAIN sessions /\ sessions[h] = lastCall.before[h]

\* the last call on the registry was encryptMessage or decryptMessage with a
\* registered handle
RegisteredHandleCall ==
    /\ lastCall.op \in {"encryptMessage", "decryptMessage"}
    /\ lastCall.handle \in DOMAIN lastCall.before

\* C21: encryptMessage or decryptMessage on handle h changes only the session
\* registered under h; the ratchet state, skipped-key cache included, and the
\* timestamps of every other registered session stay as they were.
C21_SessionsIsolated ==
    RegisteredHandleCall =>
        /\ DOMAIN sessions = DOMAIN lastCall.before
        /\ \A h \in DOMAIN sessions \ {lastCall.handle} :
              sessions[h] = lastCall.before[h]

\* a call changed the session under its handle while another session was
\* registered
C21_Witness ==
    /\ RegisteredHandleCall
    /\ sessions[lastCall.handle].ratchet # lastCall.before[lastCall.handle].ratchet
    /\ DOMAIN sessions \ {lastCall.handle} # {}

----------------------------------------------------------------------------
(* Properties of concurrent use of one session *)

\* no encrypt call is in flight
Quiet == \A c \in 1..MaxConcurrent : ~InFlightEncrypt(c)

\* Ns is the number of steps the sending chain has advanced since the session
\* was initialized
NsCountsChainSteps ==
    ratchet["alice"].chainKeySend =
        advance(AliceSession.chainKeySend, ratchet["alice"].ns)

C30_LastUsedStamped ==
    /\ RegisteredHandleCall =>
          /\ sessions[lastCall.handle].lastUsed = lastCall.time
          /\ sessions[lastCall.handle].lastUsed
                >= lastCall.before[lastCall.handle].lastUsed
    /\ \A h \in DOMAIN sessions :
          /\ sessions[h].lastUsed >= sessions[h].createdAt
          /\ sessions[h].lastUsed <= now
          /\ h \in DOMAIN lastCall.before =>
                sessions[h].lastUsed >= lastCall.before[h].lastUsed

\* a decryptMessage call that failed in the ratchet has stamped a session
\* that was last used earlier
C30_Witness ==
    /\ RegisteredHandleCall
    /\ lastCall.op = "decryptMessage"
    /\ lastCall.error # NoError
    /\ lastCall.before[lastCall.handle].lastUsed < lastCall.time

----------------------------------------------------------------------------
(* Properties of the identity key *)

\* C20: the identity key pair is created by the first initialize() and is
\* never replaced: in every state after the first initialize(), further
\* initialize() calls included, it is the key pair that was created first.
C20_IdentityKeyNeverReplaced ==
    identityHistory # <<>> => identityKeyPair = identityHistory[1]

----------------------------------------------------------------------------
(* Failure behaviour of acceptConversation *)

\* call c was given the id of a one-time prekey and has registered a session
RegisteredWithOneTimeId(c) ==
    calls[c].pc = "done" /\ calls[c].oneTimePreKeyId # NoId

\* C34: a session that acceptConversation registers after a call with a
\* oneTimePreKeyId was derived with four DH operands, the fourth from the
\* private key of that prekey; a call naming an id that is not or no longer
\* in the pool registers no session.
C34_OneTimeIdMeansFourDH ==
    \A c \in 1..MaxAccept :
        RegisteredWithOneTimeId(c) =>
            /\ calls[c].oneTimePreKeyPair # NoKey
            /\ calls[c].sharedKey = handshakes[calls[c].handshake].sharedKey

\* call c fails in this step because its signed prekey id is unknown
FailsForSignedPreKey(c) ==
    calls[c].pc = "idle" /\ calls'[c].pc = "notFound"

\* C35: acceptConversation called with a signedPreKeyId that is not in the
\* signed-prekey store fails and changes nothing: the one-time prekey named
\* in the call stays in the pool and no session is registered.
C35_UnknownSignedPreKeyChangesNothing ==
    [][\A c \in 1..MaxAccept :
          FailsForSignedPreKey(c) =>
              /\ oneTimePreKeys' = oneTimePreKeys
              /\ sessions' = sessions
              /\ preKeys' = preKeys
              /\ identityKeyPair' = identityKeyPair
              /\ \A d \in 1..MaxAccept \ {c} : calls'[d] = calls[d]]_vars

\* a call with an unknown signed prekey id has failed, and the one-time
\* prekey it named is in the pool
C35_Witness ==
    \E c \in 1..MaxAccept :
        /\ calls[c].pc = "notFound"
        /\ calls[c].signedPreKeyId \notin DOMAIN preKeys
        /\ calls[c].oneTimePreKeyId \in DOMAIN oneTimePreKeys

\* C36: acceptConversation is all-or-nothing for the prekey pool and the
\* registry: when a call fails after it looked its one-time prekey up, the
\* prekey is still in the pool and the call registered no session; only a
\* call that registers a session removes a prekey.
C36_AcceptAllOrNothing ==
    \A c \in 1..MaxAccept :
        /\ (calls[c].pc = "failed" /\ calls[c].oneTimePreKeyPair # NoKey) =>
              /\ calls[c].oneTimePreKeyId \in DOMAIN oneTimePreKeys
              /\ oneTimePreKeys[calls[c].oneTimePreKeyId]
                    = calls[c].oneTimePreKeyPair
        /\ calls[c].pc \in {"failed", "notFound"} =>
              calls[c].conversationId = NoHandle

----------------------------------------------------------------------------
(* Properties of initialize and of the publish request *)

\* initialize() has returned and no acceptConversation call has started
JustInitialized ==
    /\ initialized
    /\ initializing = "idle"
    /\ \A c \in 1..MaxAccept : calls[c].pc = "idle"

\* what initialize() holds and publishes, the tag of the signed prekey aside
HoldsAndPublishesKeys ==
    /\ identityKeyPair # NoKey
    /\ DOMAIN preKeys = {"signed-1"}
    /\ Cardinality(DOMAIN oneTimePreKeys) = OneTimePreKeyCount
    /\ published # NotPublished
    /\ published.identityKey = exportKey(identityKeyPair.publicKey)
    /\ published.signedPreKey = exportKey(preKeys["signed-1"].publicKey)
    /\ published.oneTimePreKeys =
          [id \in DOMAIN oneTimePreKeys |-> exportKey(oneTimePreKeys[id].publicKey)]

\* C31: after initialize() the service holds one identity key pair, one
\* signed prekey and N one-time prekeys under distinct ids, and the publish
\* request carries the identity public key, the signed-prekey public key
\* with its authentication tag, and the public key of every one-time prekey
\* of the pool and of no other key.
C31_InitializePublishesAll ==
    JustInitialized =>
        /\ HoldsAndPublishesKeys
        /\ "signedPreKeySignature" \in DOMAIN published
        /\ published.signedPreKeySignature =
              hmac(identityKeyPair.privateKey,
                   exportKey(preKeys["signed-1"].publicKey))

-----------------------------------------------------------------------------
(* Termination of decrypt *)

\* the state in which performDHRatchet calls skipMessageKeys(header.pn)
StepEntry ==
    [last.before EXCEPT !.pn = last.before.ns, !.ns = 0, !.nr = 0,
                        !.dhRecv = importKey(last.message.header.dhPublicKey)]

\* the state in which decrypt calls skipMessageKeys(header.n)
OwnEntry == IF RatchetCalled THEN RatchetStep.state ELSE last.before

\* the iterations of the while loop in that call: each one counts Nr up by one
Iterations(s, until) == skipMessageKeys(s, until).state.nr - s.nr

\* C38: every decrypt call ends in a plaintext or in one of its errors; each
\* of its skipMessageKeys calls runs the loop at most MAX_SKIP times, and a
\* call whose gap is larger throws SkippedTooMany with no key derived by it:
\* the chain key, the cache and Nr are as they were when it was entered.
C38_DecryptTerminates ==
    last.op = "decrypt" =>
        LET header == last.message.header
            t == ratchet[last.who]
        IN /\ last.error \in {NoError, "AuthenticationFailure", "SkippedTooMany"}
           /\ (last.error = NoError) = (last.plaintext # NoPlaintext)
           /\ RatchetCalled =>
                 /\ Iterations(StepEntry, header.pn) \in 0..MAX_SKIP
                 /\ header.pn > StepEntry.nr + MAX_SKIP =>
                       /\ last.error = "SkippedTooMany"
                       /\ t = StepEntry
           /\ (RatchetCalled => RatchetStep.error = NoError) =>
                 /\ Iterations(OwnEntry, header.n) \in 0..MAX_SKIP
                 /\ header.n > OwnEntry.nr + MAX_SKIP =>
                       /\ last.error = "SkippedTooMany"
                       /\ t = OwnEntry

\* a decrypt call whose header asks for one key more than MAX_SKIP allows
C38_Witness ==
    /\ last.op = "decrypt"
    /\ ~RatchetCalled
    /\ last.message.header.n = last.before.nr + MAX_SKIP + 1
    /\ last.error = "SkippedTooMany"

====
